---------------------------- MODULE Spec2Model ----------------------------
(***************************************************************************)
(* Model of app/demo/dispatch/dispatch.go: the in-memory dispatch service  *)
(* that records which lalserver node publishes each stream and, on a       *)
(* subscribe notification, tells the subscriber's node to pull the stream  *)
(* from the publishing node.                                               *)
(*                                                                         *)
(* Every HTTP notification is served by its own goroutine.  Goroutine g is *)
(* numbered by the arrival of its request and has a program counter pc[g]: *)
(*   "idle"  the request has not arrived yet                               *)
(*   "lock"  body parsed, local guards passed, blocked in mutex.Lock()     *)
(*   "post"  nazahttp.PostJson in flight (OnSubStartHandler only)          *)
(*   "done"  handler returned (deferred mutex.Unlock() executed)           *)
(* The code from mutex.Lock() to the handler's return or to its PostJson   *)
(* call touches nothing but the map and blocks nowhere: it is one step.    *)
(* Go strings that the code inspects character by character (URLParam,     *)
(* pullSecretParam) are sequences of one-character strings; strings that   *)
(* are only compared or copied are TLA+ strings.                           *)
(***************************************************************************)
EXTENDS Naturals, Sequences, FiniteSets, TLC

VARIABLES
    stream2ServerID,  \* the map stream name -> node id (dispatch.go:59)
    mutex,            \* the goroutine holding mutex, or NoWorker (dispatch.go:58)
    lastLocker,       \* the goroutine whose mutex.Lock() returned last
    pc,               \* every goroutine's position in its handler
    req,              \* every goroutine's info, the parsed notification
    result,           \* the return path every handler took (its last log line)
    posted,           \* the PostJson(url, b) calls every handler has made
    cause             \* the goroutine whose command led to this notification

vars == <<stream2ServerID, mutex, lastLocker, pc, req, result, posted, cause>>

(***************************************************************************)
(* Bounds and input alphabets                                              *)
(***************************************************************************)
\* number of notifications that arrive in a run, each served by one goroutine
MaxReqs == 2

Workers == 1..MaxReqs

\* value of mutex when nobody holds it
NoWorker == 0

\* stream names and node ids are both Go strings; "1" and "s" occur as both
StreamNames == {"1", "s"}
ServerIDs == {"1", "2", "s"}

(***************************************************************************)
(* Configuration (dispatch.go, "config" var block)                         *)
(***************************************************************************)
serverID2Server ==
    ("1" :> [rtmpAddr |-> "127.0.0.1:19350", apiAddr |-> "127.0.0.1:8083"]) @@
    ("2" :> [rtmpAddr |-> "127.0.0.1:19550", apiAddr |-> "127.0.0.1:8283"])

\* zero value of the Server struct, what a failed Go map read yields
ZeroServer == [rtmpAddr |-> "", apiAddr |-> ""]

\* "lal_cluster_inner_pull=1"
pullSecretParam ==
    <<"l","a","l","_","c","l","u","s","t","e","r","_",
      "i","n","n","e","r","_","p","u","l","l","=","1">>

\* parameter strings of a subscriber's URL
\* "lal_cluster_inner_pull=0"
ParamNearMiss == SubSeq(pullSecretParam, 1, Len(pullSecretParam) - 1) \o <<"0">>

\* "token=1&lal_cluster_inner_pull=1&t=1"
ParamEmbedded ==
    <<"t","o","k","e","n","=","1","&">> \o pullSecretParam \o <<"&","t","=","1">>

(***************************************************************************)
(* Go library functions used by the handlers                               *)
(***************************************************************************)
\* strings.HasPrefix(s, substr) in the place of strings.Contains
ContainsAtStart(s, substr) ==
    /\ Len(substr) <= Len(s)
    /\ SubSeq(s, 1, Len(substr)) = substr

\* strings.Contains(s, substr)
Contains(s, substr) ==
    \E i \in 0..Len(s) :
        /\ i + Len(substr) <= Len(s)
        /\ SubSeq(s, i + 1, i + Len(substr)) = substr

\* v, exist := m[k]   (v is the zero value "" when k is absent)
MapGet(m, k) ==
    IF k \in DOMAIN m THEN [v |-> m[k], exist |-> TRUE]
                      ELSE [v |-> "", exist |-> FALSE]

\* make(map[string]string)
EmptyMap == [x \in {} |-> ""]

\* m[k] = v
MapPut(m, k, v) == [x \in DOMAIN m \cup {k} |-> IF x = k THEN v ELSE m[x]]

\* delete(m, k)
MapDelete(m, k) == [x \in DOMAIN m \ {k} |-> m[x]]

\* s, exist := serverID2Server[id]
ServerGet(id) ==
    IF id \in DOMAIN serverID2Server
        THEN [v |-> serverID2Server[id], exist |-> TRUE]
        ELSE [v |-> ZeroServer, exist |-> FALSE]

(***************************************************************************)
(* Notifications                                                           *)
(***************************************************************************)
\* the fields of base.PubStartInfo / PubStopInfo / SubStartInfo the handlers
\* read; ok = FALSE is a body that nazahttp.UnmarshalRequestJsonBody rejects
Info(kind, ok, stream, server, app, hasIn, param) ==
    [kind |-> kind, ok |-> ok, StreamName |-> stream, ServerID |-> server,
     AppName |-> app, HasInSession |-> hasIn, URLParam |-> param]

NoInfo == Info("none", FALSE, "", "", "", FALSE, <<>>)

Malformed(kind) == Info(kind, FALSE, "", "", "", FALSE, <<>>)

PubStartInfos ==
    { Info("pub_start", TRUE, s, n, "live", FALSE, <<>>) :
        s \in StreamNames, n \in ServerIDs } \cup {Malformed("pub_start")}

PubStopInfos ==
    { Info("pub_stop", TRUE, s, n, "live", FALSE, <<>>) :
        s \in StreamNames, n \in ServerIDs } \cup {Malformed("pub_stop")}

\* on_sub_start bodies: an ordinary subscriber of every stream at every node,
\* and bodies that differ in the application, the parameters and the flag
OrganicSubs ==
    { Info("sub_start", TRUE, s, n, "live", FALSE, <<>>) :
        s \in StreamNames, n \in ServerIDs }

OtherSubs ==
    { Info("sub_start", TRUE, "s", "2", "vod",  FALSE, ParamNearMiss),
      Info("sub_start", TRUE, "s", "2", "live", FALSE, ParamEmbedded),
      Info("sub_start", TRUE, "1", "s", "vod",  FALSE, pullSecretParam),
      Info("sub_start", TRUE, "s", "1", "live", TRUE,  pullSecretParam),
      Info("sub_start", TRUE, "s", "2", "vod",  TRUE,  <<>>) }

SubStartInfos == OrganicSubs \cup OtherSubs \cup {Malformed("sub_start")}

SubStopInfos ==
    { Info("sub_stop", TRUE, s, "1", "live", FALSE, <<>>) : s \in {"s"} }
        \cup {Malformed("sub_stop")}

UpdateInfos ==
    { Info("update", TRUE, "", n, "", FALSE, <<>>) : n \in {"1"} }
        \cup {Malformed("update")}

(***************************************************************************)
(* Initial state.  main() makes the empty map; the runs start from any map  *)
(* that on_pub_start notifications handled one after the other leave       *)
(* behind (each writes one pair of its choice), the empty map included.    *)
(***************************************************************************)
InitMaps ==
    UNION { [S -> ServerIDs] : S \in SUBSET StreamNames }

Init ==
    /\ stream2ServerID \in InitMaps
    /\ mutex = NoWorker
    /\ lastLocker = NoWorker
    /\ pc = [w \in Workers |-> "idle"]
    /\ req = [w \in Workers |-> NoInfo]
    /\ result = [w \in Workers |-> "none"]
    /\ posted = [w \in Workers |-> <<>>]
    /\ cause = [w \in Workers |-> NoWorker]

\* the next request to arrive is served by the next goroutine
Free(w) == pc[w] = "idle" /\ \A v \in Workers : v < w => pc[v] # "idle"

\* goroutine w starts with request info and goes to position p
Enter(w, info, p, r) ==
    /\ req' = [req EXCEPT ![w] = info]
    /\ pc' = [pc EXCEPT ![w] = p]
    /\ result' = [result EXCEPT ![w] = r]
    /\ posted' = [posted EXCEPT ![w] = <<>>]
    /\ UNCHANGED <<stream2ServerID, mutex, lastLocker>>

\* a return that leaves the mutex as it is
ReturnKeepLock(w, r) ==
    /\ pc' = [pc EXCEPT ![w] = "done"]
    /\ result' = [result EXCEPT ![w] = r]
    /\ mutex' = mutex

\* goroutine w returns with result r; the deferred mutex.Unlock() runs
Return(w, r) ==
    /\ pc' = [pc EXCEPT ![w] = "done"]
    /\ result' = [result EXCEPT ![w] = r]
    /\ mutex' = NoWorker

(***************************************************************************)
(* mutex.Lock(): returns once no goroutine holds the mutex                 *)
(***************************************************************************)
Lock(w) ==
    /\ pc[w] = "lock"
    /\ mutex = NoWorker
    /\ lastLocker' = w

(***************************************************************************)
(* OnPubStartHandler                                                       *)
(***************************************************************************)
PubStartRecv(w) ==
    /\ Free(w)
    /\ UNCHANGED cause
    /\ \E info \in PubStartInfos :
          IF ~info.ok THEN Enter(w, info, "done", "parse_error")
                      ELSE Enter(w, info, "lock", "none")

\* a write that keeps the owner already recorded for the stream
PubStartPutIfAbsent(m, info) ==
    IF info.StreamName \in DOMAIN m THEN m
    ELSE MapPut(m, info.StreamName, info.ServerID)

\* stream2ServerID[info.StreamName] = info.ServerID
PubStartPut(m, info) == MapPut(m, info.StreamName, info.ServerID)

PubStartCS(w) ==
    /\ req[w].kind = "pub_start"
    /\ Lock(w)
    /\ stream2ServerID' = PubStartPut(stream2ServerID, req[w])
    /\ Return(w, "added")
    /\ UNCHANGED <<req, posted, cause>>

(***************************************************************************)
(* OnPubStopHandler                                                        *)
(***************************************************************************)
PubStopRecv(w) ==
    /\ Free(w)
    /\ UNCHANGED cause
    /\ \E info \in PubStopInfos :
          IF ~info.ok THEN Enter(w, info, "done", "parse_error")
                      ELSE Enter(w, info, "lock", "none")

\* the guard without its comparison of the node ids
PubStopMismatchExistOnly(m, info) == ~MapGet(m, info.StreamName).exist

\* if !exist || serverID != info.ServerID
PubStopMismatch(m, info) ==
    LET got == MapGet(m, info.StreamName)
    IN  ~got.exist \/ got.v # info.ServerID

\* delete(stream2ServerID, serverID): the key handed to delete is the node id
\* read from the map, not info.StreamName
PubStopDelete(m, info) ==
    LET serverID == MapGet(m, info.StreamName).v
    IN  MapDelete(m, serverID)

PubStopCS(w) ==
    /\ req[w].kind = "pub_stop"
    /\ Lock(w)
    /\ IF PubStopMismatch(stream2ServerID, req[w])
          THEN /\ UNCHANGED stream2ServerID
               /\ Return(w, "stop_mismatch")
          ELSE /\ stream2ServerID' = PubStopDelete(stream2ServerID, req[w])
               /\ Return(w, "removed")
    /\ UNCHANGED <<req, posted, cause>>

(***************************************************************************)
(* OnSubStartHandler                                                       *)
(***************************************************************************)
\* the guards before mutex.Lock() without the HasInSession one
SubStartPreCheckNoIn(info) ==
    IF Contains(info.URLParam, pullSecretParam) THEN "ignore_pull" ELSE "lock"

\* the two guards evaluated before mutex.Lock()
SubStartPreCheck(info) ==
    IF Contains(info.URLParam, pullSecretParam) THEN "ignore_pull"
    ELSE IF info.HasInSession THEN "ignore_in"
    ELSE "lock"

\* the handler up to mutex.Lock() for the body info
SubStartEnter(w, info) ==
    IF ~info.ok THEN Enter(w, info, "done", "parse_error")
    ELSE IF SubStartPreCheck(info) = "lock"
            THEN Enter(w, info, "lock", "none")
            ELSE Enter(w, info, "done", SubStartPreCheck(info))

SubStartRecv(w) ==
    /\ Free(w)
    /\ UNCHANGED cause
    /\ \E info \in SubStartInfos : SubStartEnter(w, info)

\* The node that received a start_pull command pulls the stream, and the
\* pull shows up as a subscriber: an on_sub_start notification arrives with
\* the command's stream, application and parameters, reported by the node
\* the command went to or by the node it names as the source.
PullReporters(call) ==
    { n \in DOMAIN serverID2Server :
        \/ call.url[2] = serverID2Server[n].apiAddr
        \/ call.b.Addr = serverID2Server[n].rtmpAddr }

PullSubRecv(w) ==
    /\ Free(w)
    /\ \E v \in Workers :
          /\ posted[v] # <<>>
          /\ cause' = [cause EXCEPT ![w] = v]
          /\ \E n \in PullReporters(posted[v][1]), h \in BOOLEAN :
                SubStartEnter(w, Info("sub_start", TRUE, posted[v][1].b.StreamName,
                                      n, posted[v][1].b.AppName, h,
                                      posted[v][1].b.URLParam))

\* fmt.Sprintf("http://%s/api/ctrl/start_pull", reqServer.apiAddr)
StartPullURL(reqServer) == <<"http://", reqServer.apiAddr, "/api/ctrl/start_pull">>

\* a command that passes the subscriber's own parameters on
StartPullReqOwnParam(info, pubServer) ==
    [Protocol |-> "rtmp",
     Addr |-> pubServer.rtmpAddr,
     AppName |-> info.AppName,
     StreamName |-> info.StreamName,
     URLParam |-> info.URLParam]

\* base.APICtrlStartPullReq as filled in by the handler
StartPullReq(info, pubServer) ==
    [Protocol |-> "rtmp",
     Addr |-> pubServer.rtmpAddr,
     AppName |-> info.AppName,
     StreamName |-> info.StreamName,
     URLParam |-> pullSecretParam]

\* the same decision with the map read at info.ServerID, the requesting node
SubStartDecideByServerID(m, info) ==
    LET reqServer == ServerGet(info.ServerID)
        pub       == MapGet(m, info.ServerID)
        pubServer == ServerGet(pub.v)
    IN  IF ~reqServer.exist THEN [result |-> "req_invalid", calls |-> <<>>]
        ELSE IF ~pub.exist THEN [result |-> "pub_not_exist", calls |-> <<>>]
        ELSE IF ~pubServer.exist THEN [result |-> "pub_invalid", calls |-> <<>>]
        ELSE [result |-> "post",
              calls  |-> << [url |-> <<"http://", reqServer.v.apiAddr,
                                       "/api/ctrl/start_pull">>,
                             b   |-> [Protocol |-> "rtmp",
                                      Addr |-> pubServer.v.rtmpAddr,
                                      AppName |-> info.AppName,
                                      StreamName |-> info.StreamName,
                                      URLParam |-> pullSecretParam]] >>]

\* the same decision with the command sent to the owner's control address
SubStartDecideToOwner(m, info) ==
    LET reqServer == ServerGet(info.ServerID)
        pub       == MapGet(m, info.StreamName)
        pubServer == ServerGet(pub.v)
    IN  IF ~reqServer.exist THEN [result |-> "req_invalid", calls |-> <<>>]
        ELSE IF ~pub.exist THEN [result |-> "pub_not_exist", calls |-> <<>>]
        ELSE IF ~pubServer.exist THEN [result |-> "pub_invalid", calls |-> <<>>]
        ELSE [result |-> "post",
              calls  |-> << [url |-> <<"http://", pubServer.v.apiAddr,
                                       "/api/ctrl/start_pull">>,
                             b   |-> [Protocol |-> "rtmp",
                                      Addr |-> pubServer.v.rtmpAddr,
                                      AppName |-> info.AppName,
                                      StreamName |-> info.StreamName,
                                      URLParam |-> pullSecretParam]] >>]

\* the same decision with the stream looked up before the requesting node
SubStartDecideStreamFirst(m, info) ==
    LET reqServer == ServerGet(info.ServerID)
        pub       == MapGet(m, info.StreamName)
        pubServer == ServerGet(pub.v)
    IN  IF ~pub.exist THEN [result |-> "pub_not_exist", calls |-> <<>>]
        ELSE IF ~reqServer.exist THEN [result |-> "req_invalid", calls |-> <<>>]
        ELSE IF ~pubServer.exist THEN [result |-> "pub_invalid", calls |-> <<>>]
        ELSE [result |-> "post",
              calls  |-> << [url |-> StartPullURL(reqServer.v),
                             b   |-> StartPullReq(info, pubServer.v)] >>]

\* the same decision without the two registry guards: a node id the registry
\* lacks reads as the zero Server
SubStartDecideNoRegistryGuard(m, info) ==
    LET reqServer == ServerGet(info.ServerID)
        pub       == MapGet(m, info.StreamName)
        pubServer == ServerGet(pub.v)
    IN  IF ~pub.exist THEN [result |-> "pub_not_exist", calls |-> <<>>]
        ELSE [result |-> "post",
              calls  |-> << [url |-> <<"http://", reqServer.v.apiAddr,
                                       "/api/ctrl/start_pull">>,
                             b   |-> [Protocol |-> "rtmp",
                                      Addr |-> pubServer.v.rtmpAddr,
                                      AppName |-> info.AppName,
                                      StreamName |-> info.StreamName,
                                      URLParam |-> pullSecretParam]] >>]

\* the guards evaluated under the mutex and, when all pass, the call made:
\* result "post" with the one PostJson(url, b) call, else the early return
SubStartDecide(m, info) ==
    LET reqServer == ServerGet(info.ServerID)
        pub       == MapGet(m, info.StreamName)
        pubServer == ServerGet(pub.v)
    IN  IF ~reqServer.exist THEN [result |-> "req_invalid", calls |-> <<>>]
        ELSE IF ~pub.exist THEN [result |-> "pub_not_exist", calls |-> <<>>]
        ELSE IF ~pubServer.exist THEN [result |-> "pub_invalid", calls |-> <<>>]
        ELSE [result |-> "post",
              calls  |-> << [url |-> StartPullURL(reqServer.v),
                             b   |-> StartPullReq(info, pubServer.v)] >>]

\* the critical section ended before the call: the mutex is free while the
\* command is on its way
SubStartCSUnlocked(w) ==
    /\ req[w].kind = "sub_start"
    /\ Lock(w)
    /\ LET d == SubStartDecide(stream2ServerID, req[w])
       IN  IF d.result = "post"
              THEN /\ pc' = [pc EXCEPT ![w] = "post"]
                   /\ posted' = [posted EXCEPT ![w] = d.calls]
                   /\ mutex' = NoWorker
                   /\ UNCHANGED result
              ELSE /\ Return(w, d.result)
                   /\ UNCHANGED posted
    /\ UNCHANGED <<stream2ServerID, req, cause>>

SubStartCS(w) ==
    /\ req[w].kind = "sub_start"
    /\ Lock(w)
    /\ LET d == SubStartDecide(stream2ServerID, req[w])
       IN  IF d.result = "post"
              THEN /\ pc' = [pc EXCEPT ![w] = "post"]
                   /\ posted' = [posted EXCEPT ![w] = d.calls]
                   /\ mutex' = w
                   /\ UNCHANGED result
              ELSE /\ Return(w, d.result)
                   /\ UNCHANGED posted
    /\ UNCHANGED <<stream2ServerID, req, cause>>

\* nazahttp.PostJson returns, with or without an error; the handler logs the
\* error and returns
PostJsonReturn(w) ==
    /\ pc[w] = "post"
    /\ \E err \in BOOLEAN :
          Return(w, IF err THEN "post_error" ELSE "post_ok")
    /\ UNCHANGED <<stream2ServerID, lastLocker, req, posted, cause>>

(***************************************************************************)
(* OnSubStopHandler, OnUpdateHandler: parse, log, return                   *)
(***************************************************************************)
\* a handler that drops the stream's entry when its subscriber leaves
OnSubStopHandlerDropsEntry(w) ==
    /\ Free(w)
    /\ \E info \in SubStopInfos :
          /\ req' = [req EXCEPT ![w] = info]
          /\ pc' = [pc EXCEPT ![w] = "done"]
          /\ result' = [result EXCEPT ![w] = IF info.ok THEN "noop" ELSE "parse_error"]
          /\ posted' = [posted EXCEPT ![w] = <<>>]
          /\ stream2ServerID' = IF info.ok THEN MapDelete(stream2ServerID, info.StreamName)
                                           ELSE stream2ServerID
          /\ UNCHANGED <<mutex, lastLocker, cause>>

OnSubStopHandler(w) ==
    /\ Free(w)
    /\ UNCHANGED cause
    /\ \E info \in SubStopInfos :
          Enter(w, info, "done", IF info.ok THEN "noop" ELSE "parse_error")

OnUpdateHandler(w) ==
    /\ Free(w)
    /\ UNCHANGED cause
    /\ \E info \in UpdateInfos :
          Enter(w, info, "done", IF info.ok THEN "noop" ELSE "parse_error")

(***************************************************************************)
(* The server: http.Server runs every handler in its own goroutine         *)
(***************************************************************************)
Next ==
    \E w \in Workers :
        \/ PubStartRecv(w)
        \/ PubStopRecv(w)
        \/ SubStartRecv(w)
        \/ PullSubRecv(w)
        \/ OnSubStopHandler(w)
        \/ OnUpdateHandler(w)
        \/ PubStartCS(w)
        \/ PubStopCS(w)
        \/ SubStartCS(w)
        \/ PostJsonReturn(w)

Spec == Init /\ [][Next]_vars

(***************************************************************************)
(* Scheduling.  net/http runs every handler in a goroutine of its own and  *)
(* the Go scheduler runs every runnable goroutine; a goroutine blocked in  *)
(* mutex.Lock() is woken when the mutex is unlocked (sync.Mutex hands the  *)
(* mutex to a waiter that has starved), and the HTTP call of line 157      *)
(* returns with a response or an error.  Arrivals are not forced.          *)
(***************************************************************************)
FairSpec ==
    /\ Spec
    /\ \A w \in Workers :
          /\ WF_vars(PubStartCS(w))
          /\ WF_vars(PubStopCS(w))
          /\ WF_vars(SubStartCS(w))
          /\ WF_vars(PostJsonReturn(w))

TypeOK ==
    /\ DOMAIN stream2ServerID \subseteq StreamNames \cup ServerIDs
    /\ \A k \in DOMAIN stream2ServerID : stream2ServerID[k] \in ServerIDs
    /\ mutex \in Workers \cup {NoWorker}
    /\ \A w \in Workers : pc[w] \in {"idle", "lock", "post", "done"}
    /\ \A w \in Workers : Len(posted[w]) <= 1
    /\ \A w \in Workers : mutex = w <=> pc[w] = "post"

(***************************************************************************)
(* Vocabulary of the properties                                            *)
(***************************************************************************)
\* this step is the critical section of goroutine w
Ran(w) == pc[w] = "lock" /\ pc'[w] # "lock"

\* the directory's answer for key k: <<TRUE, owner>> or <<FALSE, "">>
Lookup(m, k) == IF k \in DOMAIN m THEN <<TRUE, m[k]>> ELSE <<FALSE, "">>

\* the strings of the model
Names == StreamNames \cup ServerIDs

\* s = x \o pullSecretParam \o y for some x and y: at some offset i, the
\* characters of s are those of the marker, one by one
CarriesMarker(s) ==
    \E i \in 0..Len(s) :
        \A j \in 1..Len(pullSecretParam) :
            i + j <= Len(s) /\ s[i + j] = pullSecretParam[j]

\* goroutine w serves a well-formed on_sub_start notification
IsSubStart(w) == req[w].kind = "sub_start" /\ req[w].ok

\* goroutine w has issued a start_pull command
Dispatched(w) == posted[w] # <<>> \/ pc[w] = "post"

\* without its guards, the request of w would lead to a command: the
\* requesting node is registered and the stream's owner is registered
CouldDispatch(w) ==
    /\ req[w].ServerID \in DOMAIN serverID2Server
    /\ req[w].StreamName \in DOMAIN stream2ServerID
    /\ stream2ServerID[req[w].StreamName] \in DOMAIN serverID2Server

(***************************************************************************)
(* C1: a PublishStop for key k reporting node n, handled while the         *)
(* directory maps k to n, leaves k without an entry.                       *)
(***************************************************************************)
C1_MatchingStopRemoves ==
    [][\A w \in Workers :
          ( /\ Ran(w)
            /\ req[w].kind = "pub_stop"
            /\ Lookup(stream2ServerID, req[w].StreamName)
                  = <<TRUE, req[w].ServerID>> )
          => Lookup(stream2ServerID', req[w].StreamName) = <<FALSE, "">>]_vars

(***************************************************************************)
(* C2: the entry of a key k that maps to n changes or disappears only in   *)
(* the critical section of a PublishStart for k or of a PublishStop for k  *)
(* that reports n.                                                         *)
(***************************************************************************)
C2_OwnerKeptUntilStopOrStart ==
    [][\A k \in DOMAIN stream2ServerID :
          Lookup(stream2ServerID', k) # Lookup(stream2ServerID, k)
          => \E w \in Workers :
                /\ Ran(w)
                /\ req[w].StreamName = k
                /\ \/ req[w].kind = "pub_start"
                   \/ /\ req[w].kind = "pub_stop"
                      /\ req[w].ServerID = stream2ServerID[k]]_vars

(***************************************************************************)
(* C3: a PublishStop for k reporting n, handled while k has no entry or an *)
(* owner other than n, leaves the whole directory as it was.               *)
(***************************************************************************)
C3_StaleStopLeavesDirectory ==
    [][\A w \in Workers :
          ( /\ Ran(w)
            /\ req[w].kind = "pub_stop"
            /\ Lookup(stream2ServerID, req[w].StreamName)
                  # <<TRUE, req[w].ServerID>> )
          => stream2ServerID' = stream2ServerID]_vars

\* a stale stop has been handled: the stream is still owned by another node,
\* and the key named like that owner is still there too
C3_Witness ==
    \E w \in Workers :
        /\ pc[w] = "done"
        /\ req[w].kind = "pub_stop"
        /\ result[w] = "stop_mismatch"
        /\ req[w].StreamName \in DOMAIN stream2ServerID
        /\ stream2ServerID[req[w].StreamName] # req[w].ServerID
        /\ stream2ServerID[req[w].StreamName] \in DOMAIN stream2ServerID

(***************************************************************************)
(* C4: an entry is removed only by a PublishStop for its own key that      *)
(* reports its owner, and the critical section of an event for key k       *)
(* leaves the entry of every other key as it was.                          *)
(***************************************************************************)
C4_OnlyOwnKeyTouched ==
    [][\A w \in Workers :
          Ran(w) =>
            \A k \in Names :
               /\ ( k \in DOMAIN stream2ServerID /\ k \notin DOMAIN stream2ServerID' )
                    => /\ req[w].kind = "pub_stop"
                       /\ req[w].StreamName = k
                       /\ req[w].ServerID = stream2ServerID[k]
               /\ k # req[w].StreamName
                    => Lookup(stream2ServerID', k) = Lookup(stream2ServerID, k)]_vars

(***************************************************************************)
(* C5: a SubscribeStart whose parameter string contains the marker issues  *)
(* no start_pull command: no goroutine that has issued one serves such a   *)
(* notification.                                                           *)
(***************************************************************************)
C5_MarkerNeverDispatches ==
    \A w \in Workers :
        Dispatched(w) => ~(IsSubStart(w) /\ CarriesMarker(req[w].URLParam))

\* handled: the marker sits in the middle of the parameters, and every
\* other condition for a command is met
C5_Witness ==
    \E w \in Workers :
        /\ IsSubStart(w)
        /\ pc[w] = "done"
        /\ req[w].URLParam = ParamEmbedded
        /\ ~req[w].HasInSession
        /\ CouldDispatch(w)

(***************************************************************************)
(* C6: a SubscribeStart that reports a local input session issues no       *)
(* start_pull command: no goroutine that has issued one serves such a      *)
(* notification.                                                           *)
(***************************************************************************)
C6_LocalInputNeverDispatches ==
    \A w \in Workers :
        Dispatched(w) => ~(IsSubStart(w) /\ req[w].HasInSession)

\* handled: the flag is set, the parameters carry no marker, and every other
\* condition for a command is met
C6_Witness ==
    \E w \in Workers :
        /\ IsSubStart(w)
        /\ pc[w] = "done"
        /\ req[w].HasInSession
        /\ req[w].URLParam = <<>>
        /\ CouldDispatch(w)

(***************************************************************************)
(* C7: a SubscribeStart whose stream has no entry when the handler looks   *)
(* it up issues no start_pull command.                                     *)
(***************************************************************************)
C7_NoOwnerNeverDispatches ==
    [][\A w \in Workers :
          ( /\ Ran(w)
            /\ req[w].kind = "sub_start"
            /\ req[w].StreamName \notin DOMAIN stream2ServerID )
          => /\ pc'[w] = "done"
             /\ posted'[w] = <<>>]_vars

\* handled: the stream had no owner, while the directory holds an entry
\* under the requesting node's own name
C7_Witness ==
    \E w \in Workers :
        /\ IsSubStart(w)
        /\ pc[w] = "done"
        /\ result[w] = "pub_not_exist"
        /\ posted[w] = <<>>
        /\ req[w].StreamName \notin DOMAIN stream2ServerID
        /\ req[w].ServerID \in DOMAIN stream2ServerID

(***************************************************************************)
(* C8: a start_pull command carries the data-plane address of the node the *)
(* directory names as the stream's owner at the lookup, the application    *)
(* and stream names of the notification, and the marker as its parameters. *)
(***************************************************************************)
C8_CommandFields ==
    [][\A w \in Workers :
          (posted'[w] # posted[w] /\ posted'[w] # <<>>)
          => /\ Len(posted'[w]) = 1
             /\ req[w].StreamName \in DOMAIN stream2ServerID
             /\ stream2ServerID[req[w].StreamName] \in DOMAIN serverID2Server
             /\ posted'[w][1].b.Addr
                   = serverID2Server[stream2ServerID[req[w].StreamName]].rtmpAddr
             /\ posted'[w][1].b.AppName = req[w].AppName
             /\ posted'[w][1].b.StreamName = req[w].StreamName
             /\ posted'[w][1].b.URLParam = pullSecretParam]_vars

\* a command is in flight: node 2 asked for a stream of application "vod"
\* published on node 1, with parameters of its own
C8_Witness ==
    \E w \in Workers :
        /\ pc[w] = "post"
        /\ req[w].ServerID = "2"
        /\ req[w].AppName = "vod"
        /\ req[w].URLParam = ParamNearMiss
        /\ stream2ServerID[req[w].StreamName] = "1"
        /\ posted[w][1].b.Addr = "127.0.0.1:19350"
        /\ posted[w][1].b.AppName = "vod"

(***************************************************************************)
(* C9: once two PublishStart notifications for one key from two nodes have *)
(* both been handled, with no other critical section after them, the       *)
(* directory maps the key to the node of the one that locked last.         *)
(***************************************************************************)
C9_LastPublishStartWins ==
    \A last \in Workers :
        ( /\ lastLocker = last
          /\ pc[last] = "done"
          /\ req[last].kind = "pub_start" )
        => \A other \in Workers \ {last} :
              ( /\ pc[other] = "done"
                /\ req[other].kind = "pub_start" /\ req[other].ok
                /\ req[other].StreamName = req[last].StreamName
                /\ req[other].ServerID # req[last].ServerID )
              => Lookup(stream2ServerID, req[last].StreamName)
                    = <<TRUE, req[last].ServerID>>

\* both handled, and the one that arrived first locked last: it was blocked
\* or not yet scheduled during all of the other's handling
C9_Witness ==
    /\ pc[1] = "done" /\ pc[2] = "done"
    /\ req[1].kind = "pub_start" /\ req[1].ok
    /\ req[2].kind = "pub_start" /\ req[2].ok
    /\ req[1].StreamName = req[2].StreamName
    /\ req[1].ServerID # req[2].ServerID
    /\ lastLocker = 1
    /\ stream2ServerID[req[1].StreamName] = req[1].ServerID

(***************************************************************************)
(* C10: while a handler's start_pull call is in flight the handler does    *)
(* not hold the mutex, and no handler waiting in mutex.Lock() is kept      *)
(* waiting by it.                                                          *)
(***************************************************************************)
C10_PostOutsideLock ==
    \A w \in Workers :
        pc[w] = "post"
        => /\ mutex # w
           /\ \A v \in Workers : pc[v] = "lock" => mutex = NoWorker

(***************************************************************************)
(* C11: a SubscribeStart whose requesting node is not in the registry, or  *)
(* whose stream is owned, when looked up, by a node not in the registry,   *)
(* issues no start_pull command and leaves the directory as it was.        *)
(***************************************************************************)
\* this step is one of goroutine w
Acts(w) == pc'[w] # pc[w]

C11_UnknownNodeAborts ==
    [][\A w \in Workers :
          ( /\ Acts(w)
            /\ req'[w].kind = "sub_start" /\ req'[w].ok
            /\ \/ req'[w].ServerID \notin DOMAIN serverID2Server
               \/ /\ Ran(w)
                  /\ req[w].StreamName \in DOMAIN stream2ServerID
                  /\ stream2ServerID[req[w].StreamName]
                        \notin DOMAIN serverID2Server )
          => /\ pc'[w] # "post"
             /\ posted'[w] = <<>>
             /\ stream2ServerID' = stream2ServerID]_vars

\* handled: one request from an unknown node for a stream that has an owner,
\* and one from a known node for a stream whose owner is unknown
C11_Witness ==
    \E w1, w2 \in Workers :
        /\ IsSubStart(w1) /\ result[w1] = "req_invalid"
        /\ req[w1].StreamName \in DOMAIN stream2ServerID
        /\ IsSubStart(w2) /\ result[w2] = "pub_invalid"
        /\ posted[w1] = <<>> /\ posted[w2] = <<>>

(***************************************************************************)
(* C12: no step of a SubscribeStart, SubscribeStop or PeriodicUpdate       *)
(* handler changes the directory, and the SubscribeStop and PeriodicUpdate *)
(* handlers return at once, without a start_pull command.                  *)
(***************************************************************************)
C12_SubscribeAndUpdateReadOnly ==
    [][\A w \in Workers :
          Acts(w) =>
            /\ req'[w].kind \in {"sub_start", "sub_stop", "update"}
                  => stream2ServerID' = stream2ServerID
            /\ req'[w].kind \in {"sub_stop", "update"}
                  => pc'[w] = "done" /\ posted'[w] = <<>>]_vars

\* handled: a SubscribeStop for a stream that has an owner, and a
\* SubscribeStart that went all the way to a delivered command
C12_Witness ==
    \E w1, w2 \in Workers :
        /\ req[w1].kind = "sub_stop" /\ req[w1].ok /\ pc[w1] = "done"
        /\ req[w1].StreamName \in DOMAIN stream2ServerID
        /\ IsSubStart(w2) /\ result[w2] = "post_ok"
        /\ req[w2].StreamName \in DOMAIN stream2ServerID

(***************************************************************************)
(* C13: the SubscribeStart that a start_pull command brings about carries  *)
(* the command's parameters and issues no command of its own, and no       *)
(* handler issues more than one: one subscriber's SubscribeStart ends in   *)
(* at most one start_pull command.                                         *)
(***************************************************************************)
C13_PullDoesNotCascade ==
    \A w \in Workers :
        /\ Len(posted[w]) <= 1
        /\ Dispatched(w) => cause[w] = NoWorker

\* handled: the notification of a pull, reported without a local input
\* session by a registered node, for a stream that still has its owner
C13_Witness ==
    \E w \in Workers :
        /\ cause[w] # NoWorker
        /\ pc[w] = "done"
        /\ result[w] = "ignore_pull"
        /\ ~req[w].HasInSession
        /\ CouldDispatch(w)

(***************************************************************************)
(* C14: a SubscribeStart handler issues at most one start_pull command,    *)
(* addressed to the control-plane address the registry gives for the       *)
(* requesting node; when the call returns, with or without an error, the   *)
(* handler issues no other, leaves the directory as it was and frees the   *)
(* mutex for the handlers that follow.                                     *)
(***************************************************************************)
C14_OneCommandToRequester ==
    [][\A w \in Workers :
          /\ posted'[w] # <<>>
                => /\ Len(posted'[w]) = 1
                   /\ req'[w].ServerID \in DOMAIN serverID2Server
                   /\ posted'[w][1].url =
                         <<"http://", serverID2Server[req'[w].ServerID].apiAddr,
                           "/api/ctrl/start_pull">>
          /\ (pc[w] = "post" /\ Acts(w))
                => /\ pc'[w] = "done"
                   /\ posted'[w] = posted[w]
                   /\ stream2ServerID' = stream2ServerID
                   /\ mutex' = NoWorker]_vars

\* the command of node 2's subscriber, for a stream of node 1, failed, and
\* a notification that waited for the mutex has been handled after it
C14_Witness ==
    \E w, v \in Workers :
        /\ result[w] = "post_error"
        /\ req[w].ServerID = "2"
        /\ posted[w][1].url = <<"http://", "127.0.0.1:8283", "/api/ctrl/start_pull">>
        /\ posted[w][1].b.Addr = "127.0.0.1:19350"
        /\ v # w
        /\ lastLocker = v
        /\ pc[v] = "done"
        /\ mutex = NoWorker

C16_NoCommandAfterMatchingStop ==
    \A v \in Workers :
        ( /\ Dispatched(v)
          /\ lastLocker = v
          /\ \E w \in Workers :
                /\ req[w].kind = "pub_stop"
                /\ result[w] = "removed"
                /\ req[w].StreamName = req[v].StreamName
          /\ \A u \in Workers :
                ~ ( /\ req[u].kind = "pub_start"
                    /\ result[u] = "added"
                    /\ req[u].StreamName = req[v].StreamName ) )
        => FALSE

(***************************************************************************)
(* C17: the outcome of a SubscribeStart event is that of the first guard   *)
(* that fires in the order marker, local input, requesting node unknown,   *)
(* stream without owner, owner unknown, and a dispatch when none fires:    *)
(* whenever a handler decides, its outcome is the one the reference        *)
(* decision gives for its request and the directory it reads, and a        *)
(* handler goes on to the mutex only when neither of the first two guards  *)
(* fires.                                                                  *)
(***************************************************************************)
C17_Reference(m, info) ==
    IF CarriesMarker(info.URLParam) THEN "ignore_pull"
    ELSE IF info.HasInSession THEN "ignore_in"
    ELSE IF info.ServerID \notin DOMAIN serverID2Server THEN "req_invalid"
    ELSE IF info.StreamName \notin DOMAIN m THEN "pub_not_exist"
    ELSE IF m[info.StreamName] \notin DOMAIN serverID2Server THEN "pub_invalid"
    ELSE "post"

C17_OutcomeIsFirstGuard ==
    [][\A w \in Workers :
          ( /\ Acts(w)
            /\ pc[w] \in {"idle", "lock"}
            /\ req'[w].kind = "sub_start" /\ req'[w].ok )
          => LET ref == C17_Reference(stream2ServerID, req'[w])
             IN  /\ pc'[w] = "lock" => ref \notin {"ignore_pull", "ignore_in"}
                 /\ pc'[w] = "post" => ref = "post"
                 /\ pc'[w] = "done" => result'[w] = ref]_vars

\* the two cases the order decides: a request with the marker from an
\* unknown node was ignored, and an unknown node's request for a stream
\* without owner ended in the error of the requesting node
C17_Witness ==
    \E w, v \in Workers :
        /\ IsSubStart(w) /\ pc[w] = "done"
        /\ CarriesMarker(req[w].URLParam)
        /\ req[w].ServerID \notin DOMAIN serverID2Server
        /\ result[w] = "ignore_pull"
        /\ IsSubStart(v) /\ pc[v] = "done"
        /\ ~CarriesMarker(req[v].URLParam) /\ ~req[v].HasInSession
        /\ req[v].ServerID \notin DOMAIN serverID2Server
        /\ req[v].StreamName \notin DOMAIN stream2ServerID
        /\ result[v] = "req_invalid"

(***************************************************************************)
(* C18: while the start_pull command of a handler is being sent, the       *)
(* directory maps the command's stream to the owner whose data-plane       *)
(* address the command carries: no PublishStart or PublishStop is applied  *)
(* between the handler's lookup and the sending of the command.            *)
(***************************************************************************)
C18_OwnerStableUntilSent ==
    \A w \in Workers :
        pc[w] = "post"
        => /\ posted[w][1].b.StreamName \in DOMAIN stream2ServerID
           /\ stream2ServerID[posted[w][1].b.StreamName] \in DOMAIN serverID2Server
           /\ posted[w][1].b.Addr =
                 serverID2Server[stream2ServerID[posted[w][1].b.StreamName]].rtmpAddr

\* a command is being sent while a PublishStart of another node for the
\* same stream waits for the mutex
C18_Witness ==
    \E w, v \in Workers :
        /\ pc[w] = "post"
        /\ pc[v] = "lock"
        /\ req[v].kind = "pub_start"
        /\ req[v].StreamName = posted[w][1].b.StreamName
        /\ req[v].ServerID # stream2ServerID[req[v].StreamName]

(***************************************************************************)
(* C19: no start_pull command tells a node to pull a stream from itself:   *)
(* the source address of a command sent to the control-plane address of a  *)
(* node is never the data-plane address of that node.                      *)
(***************************************************************************)
C19_NeverPullFromSelf ==
    \A w \in Workers :
        posted[w] # <<>>
        => \A n \in DOMAIN serverID2Server :
              ~ ( /\ posted[w][1].url[2] = serverID2Server[n].apiAddr
                  /\ posted[w][1].b.Addr = serverID2Server[n].rtmpAddr )

====
